---- MODULE Spec2Model ----
(***************************************************************************)
(* The WebSocket client WS of jskromer (src/unnamed/part_000) as a state   *)
(* machine.  One manager, the transports it has constructed, the request   *)
(* correlation table with its timeout timers, the event bus and the        *)
(* reconnection timers.  Every callback of the single-threaded event loop  *)
(* (a caller's method call, a transport callback, a timer callback) is one *)
(* atomic action.                                                          *)
(*                                                                         *)
(* Encoding of JavaScript values:                                          *)
(*   - a string field that is missing or not a string is "" ;              *)
(*   - a numeric id that is missing or not a number is 0 (the ids the      *)
(*     manager hands out are >= 1);                                        *)
(*   - a boolean-ish field is "true", "false" or "absent";                 *)
(*   - readyState is 0 CONNECTING, 1 OPEN, 2 CLOSING, 3 CLOSED.            *)
(* Time is abstract: the callback of an armed timer runs as an event of    *)
(* its own, at any later moment, unless the timer was cleared before.      *)
(***************************************************************************)
EXTENDS Integers, Sequences, FiniteSets, TLC

\* ------------------------------------------------------------- bounds
MaxCalls == 2       \* request() calls made in one behaviour
MaxSockets == 2     \* transports constructed in one behaviour
MaxListens == 1     \* handlers registered at one time
MaxBusListens == 2  \* handlers registered at one time, in the behaviours of SpecBus
MaxBusCalls == 1    \* request() calls made in one behaviour of SpecBus

\* ------------------------------------------------------------- domains
Ids == 1..MaxCalls

\* message.type given to request(): "" is a missing or non-string type
MsgTypes == {"subscribe", ""}

\* what a caller gives to subscribe(): one name, or an array of names
SubscribeInputs == {<<"transactions">>, <<"motd", "transactions">>, <<>>}

\* handlers a caller may register: hRec returns normally, hThrow raises
Handlers == {"hRec", "hThrow"}

\* the handlers a caller may register under `close` in SpecClose: hClose
\* calls close() on the client and returns
CloseHandlers == {"hRec", "hClose"}

\* event names a caller registers handlers under
ListenNames == {"close"}

\* the handlers a caller may register under `open` in SpecLive: hOnce calls
\* off("open", hOnce), hReadd calls off("open", hReadd) and then
\* on("open", hReadd), hAdds calls on("open", hRec); each then returns
LiveHandlers == {"hRec", "hOnce", "hReadd", "hAdds"}

\* the event names a caller registers handlers under in SpecBus: those the
\* classification of inbound frames emits
BusNames == {"message", "response", "response:subscribe", "keepalive", "transaction"}

\* the event names a caller registers handlers under in SpecIso
IsoNames == {"close", "keepalive", "message"}

\* the event names the transport callbacks emit, lines 100, 128 and 140
LifecycleNames == {"open", "close", "error"}

\* what a caller gives to WS.connect as privateKeyOrUrl: a string, given by
\* its characters, or a credential that is no string
Str(chars) == [isString |-> TRUE, chars |-> chars]

LiteralUrl == Str(<<"w", "s", "s", ":", "/", "/", "h">>)

ConnectInputs ==
    {LiteralUrl,
     Str(<<"w", "s", ":", "/", "/", "h">>),
     Str(<<"W", "s", "S", ":", "/", "/", "h">>),
     Str(<<"h", "t", "t", "p", "s", ":", "/", "/", "h">>),
     Str(<<"k", "w", "s", ":", "/", "/">>),
     Str(<<"w", "s">>),
     [isString |-> FALSE, chars |-> <<>>]}

\* the URL a successful WS.start returns
StartUrl == <<"w", "s", "s", ":", "/", "/", "s">>

\* what a transport hands to its error callback: message is ev.message
\* when that is a string, str is ev itself when ev is a string, emessage is
\* ev.error.message when that is a string, error says whether ev.error is
\* there.  The first is the event of a browser transport: none of these.
PlainErrorEvent == [message |-> "", str |-> "", emessage |-> "", error |-> "absent"]

ErrorEvents ==
    {PlainErrorEvent,
     [PlainErrorEvent EXCEPT !.message = "m", !.emessage = "e", !.error = "object"],
     [PlainErrorEvent EXCEPT !.str = "s"],
     [PlainErrorEvent EXCEPT !.emessage = "e", !.error = "object"]}

NoFrame ==
    [json |-> FALSE, type |-> "", event |-> "", tx |-> "absent", id |-> 0,
     ok |-> "absent", responding_to |-> "", server_time |-> ""]

ResponseFrame(i, okv, rt) ==
    [NoFrame EXCEPT !.json = TRUE, !.type = "response", !.id = i, !.ok = okv,
                    !.responding_to = rt]

\* the frames the request correlation reads, and one frame of each other
\* kind: a response with an id that is never pending, a response whose id is
\* no number, a keepalive, a text that is no JSON
CoreFrames ==
    {ResponseFrame(i, okv, "subscribe") : i \in Ids, okv \in {"true", "false"}}
    \cup {ResponseFrame(0, "true", "subscribe"),
          ResponseFrame(MaxCalls + 1, "true", ""),
          [NoFrame EXCEPT !.json = TRUE, !.type = "keepalive"],
          NoFrame}

\* the text frames the server may put on a transport
Frames ==
    {ResponseFrame(i, okv, "subscribe") : i \in Ids, okv \in {"true", "false"}}
    \cup {ResponseFrame(0, "true", "subscribe"),
          ResponseFrame(MaxCalls + 1, "true", ""),
          [NoFrame EXCEPT !.json = TRUE, !.type = "keepalive"],
          [NoFrame EXCEPT !.json = TRUE, !.type = "keepalive",
                          !.server_time = "2024-01-01T00:00:00Z"],
          [NoFrame EXCEPT !.json = TRUE, !.type = "event",
                          !.event = "transaction", !.tx = "object"],
          [NoFrame EXCEPT !.json = TRUE, !.type = "event",
                          !.event = "transaction"],
          [NoFrame EXCEPT !.json = TRUE, !.type = "motd"],
          [NoFrame EXCEPT !.json = TRUE, !.type = "message"],
          [NoFrame EXCEPT !.json = TRUE],
          NoFrame}

\* ------------------------------------------------------------- state
VARIABLES
    autoReconnect,    \* opts.autoReconnect, fixed by the constructor
    url,              \* WS.url, as its characters; <<>> while no client exists
    starts,           \* number of calls WS.connect made to WS.start
    thrown,           \* the message of the error open() has raised into its caller, "" if none
    hung,             \* a callback is in a loop it never leaves: nothing else runs any more
    shouldReconnect,  \* WS.shouldReconnect
    ws,               \* WS.ws: index into socks of the current handle, 0 = undefined
    socks,            \* readyState of every transport constructed so far
    wire,             \* frames handed to a transport's send(), in order
    nextId,           \* WS.nextId
    pending,          \* keys of WS.pending
    reqTimers,        \* ids whose request timeout is armed: not yet fired or cleared
    reconn,           \* number of reconnection timers armed and not yet fired
    calls,            \* one record per request() call: its promise and its outcome
    listeners,        \* WS.listeners: event name -> handlers in insertion order,
                      \* for the event names whose set is not empty
    lastUpdate,       \* WS.lastUpdate
    closeCalled,      \* close() has been called at least once
    removals,         \* id -> number of times its entry was deleted from pending
    reopens,          \* number of open() calls made by reconnection timers
    log               \* the handler invocations made by the callback that ran last, in order

vars == <<autoReconnect, url, starts, thrown, hung, shouldReconnect, ws, socks, wire, nextId, pending,
          reqTimers, reconn, calls, listeners, lastUpdate, closeCalled,
          removals, reopens, log>>

\* ------------------------------------------------------------- values
\* one entry of log: handler h was invoked for event ev with payload frame
\* while WS.pending was pend, the request timeouts of timers were armed and
\* WS.lastUpdate was lu, and the promises of the requests in unsettled were
\* neither resolved nor rejected yet
Entry(ev, h, frame, pend, timers, lu, unsettled) ==
    [ev |-> ev, h |-> h, frame |-> frame, pend |-> pend, timers |-> timers,
     lu |-> lu, unsettled |-> unsettled]

\* the outcome of a request() call: the Result the async function returns
NoResult == [st |-> "none", frame |-> NoFrame, message |-> "", mtype |-> "", id |-> 0]

\* new Error(message); mtype and id are the parts interpolated into the message
ErrorValue(message, mtype, id) ==
    [kind |-> "Error", message |-> message, mtype |-> mtype, id |-> id, frame |-> NoFrame]

\* the object rejected by onclose
ClosedValue(id) ==
    [kind |-> "closed", message |-> "WebSocket closed before response", mtype |-> "",
     id |-> id,
     frame |-> [NoFrame EXCEPT !.type = "response", !.ok = "false", !.id = id,
                               !.responding_to = "unknown"]]

\* a response frame used as a rejection value
FrameValue(frame) ==
    [kind |-> "frame", message |-> "", mtype |-> "", id |-> frame.id, frame |-> frame]

\* the ids of the calls of cs whose promise is still pending
Unsettled(cs) == {cs[c].id : c \in {x \in 1..Len(cs) : cs[x].promise = "pending"}}

\* ------------------------------------------------------------- utils.ts
\* mutant: the parse failure is not noticed
tryCatchAlwaysOk(raw) == [metaOk |-> TRUE, target |-> raw]

\* tryCatch(() => JSON.parse(text)): the proxy resultOk(value) or resultErr(msg)
tryCatch(raw) == [metaOk |-> raw.json, target |-> raw]

\* the get trap of makeProxy: "ok" and "error" are answered by the proxy
\* itself with a function, every other property comes from the target
ProxyGet(data, p) ==
    IF p \in {"ok", "error"} THEN "function" ELSE data.target[p]

\* JavaScript truthiness of the encoded values
Truthy(v) == v \notin {"false", "absent", ""}

\* parseErrorMessage(err).  The closed-before-response object has no string
\* message and its error is an object, so it falls to String(err); a frame
\* proxy has no message and its error reads as a function, and String() of
\* the proxy raises a TypeError.
parseErrorMessage(err) ==
    CASE err.kind = "Error" -> [st |-> "err", message |-> err.message]
      [] err.kind = "closed" -> [st |-> "err", message |-> "[object Object]"]
      [] OTHER -> [st |-> "thrown", message |-> "Cannot convert object to primitive value"]

resultOk(frame) ==
    [NoResult EXCEPT !.st = "ok", !.frame = frame]

\* the catch block of request(): resultErr(parseErrorMessage(e))
resultErr(err) ==
    LET m == parseErrorMessage(err)
    IN [NoResult EXCEPT !.st = m.st, !.message = m.message,
                        !.mtype = IF err.kind = "Error" THEN err.mtype ELSE "",
                        !.id = IF err.kind = "Error" THEN err.id ELSE 0]

\* ------------------------------------------------------------- event bus
\* mutant: the first handler that raises ends the loop
RECURSIVE InvokedUntilThrow(_)
InvokedUntilThrow(hs) ==
    IF hs = <<>> THEN <<>>
    ELSE IF Head(hs) = "hThrow" THEN <<"hThrow">>
    ELSE <<Head(hs)>> \o InvokedUntilThrow(Tail(hs))

\* emit(event, payload): every handler of the event's set is invoked, in
\* insertion order; a raising handler is caught and the loop goes on
Invoked(hs) == hs

emit(ev, payload, pend, timers, lu, cs) ==
    LET hs == IF ev \in DOMAIN listeners THEN Invoked(listeners[ev]) ELSE <<>>
    IN IF hs = <<>> THEN <<>>
       ELSE [n \in 1..Len(hs) |-> Entry(ev, hs[n], payload, pend, timers, lu, Unsettled(cs))]

\* emit() called for every name of evs in turn, with the same payload
RECURSIVE emitAll(_, _, _, _, _, _)
emitAll(evs, payload, pend, timers, lu, cs) ==
    IF evs = <<>> THEN <<>>
    ELSE emit(Head(evs), payload, pend, timers, lu, cs)
         \o emitAll(Tail(evs), payload, pend, timers, lu, cs)

InSeq(h, hs) == \E i \in 1..Len(hs) : hs[i] = h

Without(h, hs) == SelectSeq(hs, LAMBDA x : x # h)

\* the number of handlers registered, over all event names
RECURSIVE SumLen(_, _)
SumLen(f, names) ==
    IF names = {} THEN 0
    ELSE LET n == CHOOSE x \in names : TRUE
         IN Len(f[n]) + SumLen(f, names \ {n})

Registered == SumLen(listeners, DOMAIN listeners)

\* whether the bound on registered handlers, and on event names that have
\* a set, lets h be added to ev's set
Room(ev, h, limit) ==
    \/ Registered < limit /\ Cardinality(DOMAIN listeners \cup {ev}) <= limit
    \/ ev \in DOMAIN listeners /\ InSeq(h, listeners[ev])

\* h is registered under ev
Held(ev, h) == ev \in DOMAIN listeners /\ InSeq(h, listeners[ev])

\* mutant: the handlers of an event are kept in a list
AddedAgain(hs, h) == Append(hs, h)

\* Set.add: a handler that is in the set already is not added again and
\* keeps its place
Added(hs, h) == IF InSeq(h, hs) THEN hs ELSE Append(hs, h)

\* on(event, handler): Set.add
on(ev, h) ==
    /\ ws # 0
    /\ LET hs == IF ev \in DOMAIN listeners THEN listeners[ev] ELSE <<>>
           ns == Added(hs, h)
       IN listeners' = [e \in DOMAIN listeners \cup {ev} |->
                           IF e = ev THEN ns ELSE listeners[e]]
    /\ log' = <<>>
    /\ UNCHANGED <<autoReconnect, url, starts, thrown, hung, shouldReconnect, ws, socks, wire, nextId, pending,
                   reqTimers, reconn, calls, lastUpdate, closeCalled, removals, reopens>>

\* mutant: the handler is deleted from the set of every event
RemovedEverywhere(f, ev, h) ==
    LET g == [e \in DOMAIN f |-> Without(h, f[e])]
    IN [e \in {x \in DOMAIN f : g[x] # <<>>} |-> g[e]]

\* what off(event, handler) leaves of the listeners, lines 218-219: nothing
\* changes for an event without a set, else Set.delete on the event's set,
\* which changes nothing when the handler is not in it.  An event whose set
\* has become empty is kept like an event without a set: on() adds to
\* either (line 210) and emit() returns at once for either (line 227).
Removed(f, ev, h) ==
    IF ev \notin DOMAIN f THEN f
    ELSE LET hs == Without(h, f[ev])
         IN [e \in DOMAIN f \ (IF hs = <<>> THEN {ev} ELSE {}) |->
                IF e = ev THEN hs ELSE f[e]]

\* off(event, handler)
off(ev, h) ==
    /\ ws # 0
    /\ listeners' = Removed(listeners, ev, h)
    /\ log' = <<>>
    /\ UNCHANGED <<autoReconnect, url, starts, thrown, hung, shouldReconnect, ws, socks, wire, nextId, pending,
                   reqTimers, reconn, calls, lastUpdate, closeCalled, removals, reopens>>

\* ------------------------------------------------------------- promises
\* the record of one request() call.  promise is the state of the promise
\* built at line 181 ("none" when the call returned before building it),
\* value what it was settled with, settles how often its resolve or reject
\* ran, result what the async function returned to its caller.
NewCall(type, id, promise, result) ==
    [type |-> type, id |-> id, promise |-> promise, value |-> ErrorValue("", "", 0),
     settles |-> 0, result |-> result]

\* running resolve (how = "resolved") or reject (how = "rejected") of a call's
\* promise: the first settlement wins, and the call, if it still awaits the
\* promise, returns resultOk(value) or goes through its catch block
Settled(call, how, value) ==
    [call EXCEPT
        !.settles = @ + 1,
        !.promise = IF @ = "pending" THEN how ELSE @,
        !.value = IF call.promise = "pending" THEN value ELSE @,
        !.result = IF call.promise = "pending" /\ @.st = "none"
                   THEN IF how = "resolved" THEN resultOk(value.frame) ELSE resultErr(value)
                   ELSE @]

CallOf(id) == CHOOSE c \in 1..Len(calls) : calls[c].id = id

SettleIn(cs, id, how, value) == [cs EXCEPT ![CallOf(id)] = Settled(@, how, value)]

\* settle every id of ids, in ascending order (the Map's insertion order)
RECURSIVE SettleAll(_, _, _)
SettleAll(cs, ids, how) ==
    IF ids = {} THEN cs
    ELSE LET id == CHOOSE x \in ids : \A y \in ids : x <= y
         IN SettleAll(SettleIn(cs, id, how, ClosedValue(id)), ids \ {id}, how)

Counted(r, ids) == [k \in DOMAIN r |-> IF k \in ids THEN r[k] + 1 ELSE r[k]]

\* ------------------------------------------------------------- transport
\* WebSocket.close() as seen in readyState: a connecting or open socket
\* starts closing, a closing or closed one is left alone
AfterClose(rs) == IF rs \in {0, 1} THEN 2 ELSE rs

\* mutant: any handle counts as open, whatever its readyState
IsOpenAnyHandle == ws # 0

\* `this.ws && this.ws.readyState === 1`
IsOpen == ws # 0 /\ socks[ws] = 1

\* ------------------------------------------------------------- open()
\* mutant: the previous handle is not asked to close
AfterPreviousCloseSkipped(rs, raises) == rs

\* `try { this.ws?.close() } catch { }` as seen in the previous handle's
\* readyState.  raises says that this close() call raises (a transport
\* implementation given as WebSocketImpl may): the exception is caught, and
\* the transport is left in the state it was in.
AfterPreviousClose(rs, raises) == IF raises THEN rs ELSE AfterClose(rs)

\* whether open() goes on to `new Ctor(url, protocols)` after the close
\* attempt: the catch block is empty, so it always does
Constructs(raises) == TRUE

\* try { this.ws?.close() } catch {} ; this.ws = new Ctor(url, protocols)
OpenedSocks(raises) ==
    LET asked == IF ws = 0 THEN socks
                 ELSE [socks EXCEPT ![ws] = AfterPreviousClose(@, raises)]
    IN IF Constructs(raises) THEN Append(asked, 0) ELSE asked

OpenBody(raises) ==
    /\ Len(socks) < MaxSockets
    /\ socks' = OpenedSocks(raises)
    /\ ws' = IF Constructs(raises) THEN Len(socks) + 1 ELSE ws
    /\ log' = <<>>

\* a character as the flag i of a regular expression compares it
Lower(ch) == CASE ch = "W" -> "w" [] ch = "S" -> "s" [] OTHER -> ch

\* whether the characters begin with prefix, letters compared without case
RECURSIVE StartsWith(_, _)
StartsWith(chars, prefix) ==
    IF prefix = <<>> THEN TRUE
    ELSE IF chars = <<>> THEN FALSE
    ELSE Lower(Head(chars)) = Head(prefix) /\ StartsWith(Tail(chars), Tail(prefix))

\* mutant: every string is taken for a URL
IsUrlAnyString(arg) == arg.isString

\* typeof privateKeyOrUrl === "string" && /^wss?:\/\//i.test(privateKeyOrUrl)
IsUrl(arg) ==
    /\ arg.isString
    /\ \/ StartsWith(arg.chars, <<"w", "s", ":", "/", "/">>)
       \/ StartsWith(arg.chars, <<"w", "s", "s", ":", "/", "/">>)

\* WS.connect(privateKeyOrUrl, options): a URL is used as it is, for
\* anything else WS.start is awaited; then new WS(url, options);
\* client.open(); return client.  startOk says whether WS.start returns a
\* URL or raises (the POST failed, or the credential could not be
\* resolved): connect then rejects before line 86.
connect(arg, startOk) ==
    /\ ws = 0 /\ socks = <<>> /\ url = <<>> /\ starts = 0
    /\ starts' = IF IsUrl(arg) THEN starts ELSE starts + 1
    /\ IF IsUrl(arg) \/ startOk
       THEN /\ url' = IF IsUrl(arg) THEN arg.chars ELSE StartUrl
            /\ OpenBody(FALSE)
       ELSE /\ log' = <<>>
            /\ UNCHANGED <<url, ws, socks>>
    /\ UNCHANGED <<autoReconnect, thrown, hung, shouldReconnect, wire, nextId, pending, reqTimers,
                   reconn, calls, listeners, lastUpdate, closeCalled, removals, reopens>>

\* open() called by the holder of the client
open(raises) ==
    /\ ws # 0
    /\ OpenBody(raises)
    /\ UNCHANGED <<autoReconnect, url, starts, thrown, hung, shouldReconnect, wire, nextId, pending, reqTimers,
                   reconn, calls, listeners, lastUpdate, closeCalled, removals, reopens>>

\* mutant: a constructor is taken to be there
CtorFoundAlways(impl, ambient) == TRUE

\* `this.opts.WebSocketImpl ?? globalThis.WebSocket` and `if (!Ctor)`, lines
\* 92-93: whether open() finds a transport constructor.  impl says that
\* options gave one, ambient that the platform has one when open() runs.
CtorFound(impl, ambient) == impl \/ ambient

\* open() called by the holder of the client, on a platform that may have
\* lost its WebSocket constructor: without a constructor open() raises at
\* line 93, before line 95
openIn(impl, ambient) ==
    /\ ws # 0
    /\ IF CtorFound(impl, ambient)
       THEN OpenBody(FALSE) /\ UNCHANGED thrown
       ELSE /\ thrown' = "No WebSocket implementation found. Provide options.WebSocketImpl."
            /\ log' = <<>>
            /\ UNCHANGED <<ws, socks>>
    /\ UNCHANGED <<autoReconnect, url, starts, hung, shouldReconnect, wire, nextId, pending,
                   reqTimers, reconn, calls, listeners, lastUpdate, closeCalled, removals,
                   reopens>>

\* ------------------------------------------------------------- close()
\* mutant: close() stores the configured option
ClosedFlagFromOptions == autoReconnect

\* the value close() stores in shouldReconnect
ClosedFlag == FALSE

close ==
    /\ ws # 0
    /\ shouldReconnect' = ClosedFlag
    /\ socks' = [socks EXCEPT ![ws] = AfterClose(@)]
    /\ closeCalled' = TRUE
    /\ log' = <<>>
    /\ UNCHANGED <<autoReconnect, url, starts, thrown, hung, ws, wire, nextId, pending, reqTimers, reconn, calls,
                   listeners, lastUpdate, removals, reopens>>

\* ------------------------------------------------------------- request()
\* mutant: this.nextId++, the value before the increment
AllocIdPostIncrement(n) == n

\* const id = ++this.nextId
AllocId(n) == n + 1

\* the part of the state request() reads and writes
ReqState ==
    [nextId |-> nextId, pending |-> pending, reqTimers |-> reqTimers, wire |-> wire,
     calls |-> calls]

\* mutant: the id is taken after the open check
RequestedIdAfterOpenCheck(s, type, event, serializable) ==
    IF type = ""
    THEN [s EXCEPT !.calls = Append(@, NewCall(type, 0, "none",
              resultErr(ErrorValue("Request message must include a string 'type'", "", 0))))]
    ELSE IF ~IsOpen
    THEN [s EXCEPT !.calls = Append(@, NewCall(type, 0, "none",
              resultErr(ErrorValue("WebSocket is not open", "", 0))))]
    ELSE LET id == AllocId(s.nextId) IN
         [s EXCEPT !.nextId = id,
                   !.pending = @ \cup {id},
                   !.reqTimers = @ \cup {id},
                   !.wire = Append(@, [type |-> type, event |-> event, id |-> id]),
                   !.calls = Append(@, NewCall(type, id, "pending", NoResult))]

\* the body of request(message, timeoutMs) as a function of that state.
\* type is message.type and event message.event ("" when the message has
\* none); serializable is false for a message JSON.stringify raises on (a
\* BigInt or a cycle in it), which happens at line 193, after the entry and
\* the timer exist.
Requested(s, type, event, serializable) ==
    IF type = ""
    THEN [s EXCEPT !.calls = Append(@, NewCall(type, 0, "none",
              resultErr(ErrorValue("Request message must include a string 'type'", "", 0))))]
    ELSE LET id == AllocId(s.nextId) IN
         IF ~IsOpen
         THEN [s EXCEPT !.nextId = id,
                        !.calls = Append(@, NewCall(type, id, "none",
                            resultErr(ErrorValue("WebSocket is not open", "", 0))))]
         ELSE [s EXCEPT !.nextId = id,
                        !.pending = @ \cup {id},
                        !.reqTimers = @ \cup {id},
                        !.wire = IF serializable
                                 THEN Append(@, [type |-> type, event |-> event, id |-> id])
                                 ELSE @,
                        !.calls = Append(@, NewCall(type, id, "pending",
                            IF serializable THEN NoResult
                            ELSE resultErr(ErrorValue("JSON.stringify failed", "", 0))))]

\* request(message, timeoutMs) called by the holder of the client, with a
\* message that has no event field
request(type, serializable) ==
    /\ ws # 0
    /\ Len(calls) < MaxCalls
    /\ LET s == Requested(ReqState, type, "", serializable) IN
       /\ nextId' = s.nextId
       /\ pending' = s.pending
       /\ reqTimers' = s.reqTimers
       /\ wire' = s.wire
       /\ calls' = s.calls
    /\ log' = <<>>
    /\ UNCHANGED <<autoReconnect, url, starts, thrown, hung, shouldReconnect, ws, socks, reconn, listeners,
                   lastUpdate, closeCalled, removals, reopens>>

\* mutant: subscribe hands the frame to send(): nothing is tracked
SubscribedUntracked(s, name) ==
    IF IsOpen
    THEN [s EXCEPT !.wire = Append(@, [type |-> "subscribe", event |-> name, id |-> 0])]
    ELSE s

\* line 151 and line 153: this.request({ type: "subscribe", event: e })
Subscribed(s, name) == Requested(s, "subscribe", name, TRUE)

\* mutant: only the first name of the array is requested
SubscribedFirst(s, names) ==
    IF names = <<>> THEN s ELSE Requested(s, "subscribe", Head(names), TRUE)

\* event.forEach(...) at line 151
RECURSIVE SubscribedRest(_, _)
SubscribedRest(s, names) ==
    IF names = <<>> THEN s
    ELSE SubscribedRest(Subscribed(s, Head(names)), Tail(names))

SubscribedAll(s, names) == SubscribedRest(s, names)

\* subscribe(event): names is the array given, or the one name given as a
\* string; the promises request() returns are dropped
subscribe(names) ==
    /\ ws # 0
    /\ Len(calls) + Len(names) <= MaxCalls
    /\ LET s == SubscribedAll(ReqState, names) IN
       /\ nextId' = s.nextId
       /\ pending' = s.pending
       /\ reqTimers' = s.reqTimers
       /\ wire' = s.wire
       /\ calls' = s.calls
    /\ log' = <<>>
    /\ UNCHANGED <<autoReconnect, url, starts, thrown, hung, shouldReconnect, ws, socks, reconn, listeners,
                   lastUpdate, closeCalled, removals, reopens>>

\* mutant: the timeout callback does not delete the entry
AfterTimeoutKeeps(p, id) == p

\* what the timeout callback of request id leaves of the table: line 183
AfterTimeout(p, id) == p \ {id}

\* the Error the timeout callback rejects with: line 184
TimeoutError(type, id) == ErrorValue("Request timed out", type, id)

\* mutant: the timer is one that stays armed after it has fired
FiredStaysArmed(timers, id) == timers

\* `setTimeout(...)` at line 182 as seen in the armed timers once the
\* callback of id's timer runs: a timeout runs once
Fired(timers, id) == timers \ {id}

\* the timeout callback armed by request(), lines 182-185
requestTimeout(id) ==
    /\ id \in reqTimers
    /\ reqTimers' = Fired(reqTimers, id)
    /\ pending' = AfterTimeout(pending, id)
    /\ removals' = Counted(removals, pending \ pending')
    /\ calls' = SettleIn(calls, id, "rejected", TimeoutError(calls[CallOf(id)].type, id))
    /\ log' = <<>>
    /\ UNCHANGED <<autoReconnect, url, starts, thrown, hung, shouldReconnect, ws, socks, wire, nextId, reconn,
                   listeners, lastUpdate, closeCalled, reopens>>

\* ------------------------------------------------------------- transport callbacks
\* ws.onopen of transport i: the connection is established
onopen(i) ==
    /\ i \in 1..Len(socks)
    /\ socks[i] = 0
    /\ socks' = [socks EXCEPT ![i] = 1]
    /\ log' = emit("open", NoFrame, pending, reqTimers, lastUpdate, calls)
    /\ UNCHANGED <<autoReconnect, url, starts, thrown, hung, shouldReconnect, ws, wire, nextId, pending, reqTimers,
                   reconn, calls, listeners, lastUpdate, closeCalled, removals, reopens>>

\* Set.delete(x) while `for (const fn of set)` of line 228 is under way.
\* st.hs is the set in insertion order and st.pos the number of its entries
\* the iterator has passed; an entry deleted behind the iterator is one
\* fewer passed, one deleted ahead of it will not be visited.
SetDelete(st, x) ==
    IF ~InSeq(x, st.hs) THEN st
    ELSE LET j == CHOOSE k \in 1..Len(st.hs) : st.hs[k] = x
         IN [hs |-> Without(x, st.hs),
             pos |-> IF j <= st.pos THEN st.pos - 1 ELSE st.pos]

\* Set.add(x) while the loop is under way: a new entry goes to the end,
\* ahead of the iterator, and will be visited
SetAdd(st, x) == [st EXCEPT !.hs = Added(@, x)]

\* what the calls handler h makes to off() and on() do to the set being
\* iterated
HandlerRuns(h, st) ==
    CASE h = "hOnce" -> SetDelete(st, h)
      [] h = "hReadd" -> SetAdd(SetDelete(st, h), h)
      [] h = "hAdds" -> SetAdd(st, "hRec")
      [] OTHER -> st

\* the loop of emit(), lines 228-230, over the set itself: the iterator
\* takes the next entry, the handler runs, and the loop ends when no entry
\* is left ahead.  The handlers being deterministic, the loop never ends
\* exactly when an iteration state comes back (seen); invoked is then the
\* invocations up to that point.
RECURSIVE LiveLoop(_, _, _)
LiveLoop(st, seen, acc) ==
    IF st.pos >= Len(st.hs)
    THEN [hs |-> st.hs, invoked |-> acc, returns |-> TRUE]
    ELSE IF st \in seen
    THEN [hs |-> st.hs, invoked |-> acc, returns |-> FALSE]
    ELSE LET h == st.hs[st.pos + 1]
         IN LiveLoop(HandlerRuns(h, [st EXCEPT !.pos = @ + 1]),
                     seen \cup {st}, Append(acc, h))

\* emit(ev, payload) with handlers that may call on() and off() for ev
emitLive(ev) ==
    LiveLoop([hs |-> IF ev \in DOMAIN listeners THEN listeners[ev] ELSE <<>>, pos |-> 0],
             {}, <<>>)

\* ws.onopen of transport i when the handlers under `open` may call on()
\* and off() for `open`: the set is what the handlers have made of it, and
\* the callback does not return when the loop does not end
onopenLive(i) ==
    /\ ~hung
    /\ i \in 1..Len(socks)
    /\ socks[i] = 0
    /\ socks' = [socks EXCEPT ![i] = 1]
    /\ LET r == emitLive("open") IN
       /\ listeners' = [e \in (DOMAIN listeners \ {"open"})
                                \cup (IF r.hs = <<>> THEN {} ELSE {"open"}) |->
                            IF e = "open" THEN r.hs ELSE listeners[e]]
       /\ log' = [n \in 1..Len(r.invoked) |->
                     Entry("open", r.invoked[n], NoFrame, pending, reqTimers, lastUpdate,
                           Unsettled(calls))]
       /\ hung' = ~r.returns
    /\ UNCHANGED <<autoReconnect, url, starts, thrown, shouldReconnect, ws, wire, nextId,
                   pending, reqTimers, reconn, calls, lastUpdate, closeCalled, removals,
                   reopens>>

\* mutant: the payload carries no message
normalizeErrorEventNoMessage(ev) ==
    [message |-> "", error |-> IF ev.error # "absent" THEN "ev.error" ELSE "ev"]

\* normalizeErrorEvent(ev): the message is ev.message when that is a
\* string, else ev when ev is a string, else ev.error.message when that is
\* a string, else undefined; the error is ev.error ?? ev
normalizeErrorEvent(ev) ==
    [message |-> IF ev.message # "" THEN ev.message
                 ELSE IF ev.str # "" THEN ev.str
                 ELSE IF ev.emessage # "" THEN ev.emessage
                 ELSE "",
     error |-> IF ev.error # "absent" THEN "ev.error" ELSE "ev"]

\* ws.onerror of transport i, called with ev
onerror(i, ev) ==
    /\ i \in 1..Len(socks)
    /\ socks[i] \in {0, 1, 2}
    /\ log' = emit("error", normalizeErrorEvent(ev), pending, reqTimers, lastUpdate,
                 calls)
    /\ UNCHANGED <<autoReconnect, url, starts, thrown, hung, shouldReconnect, ws, socks, wire, nextId, pending,
                   reqTimers, reconn, calls, listeners, lastUpdate, closeCalled,
                   removals, reopens>>

\* mutant: the string is not parsed
DateOfNothing(str) == "Invalid Date"

\* new Date(server_time): the time, or an invalid Date for an unparseable string
DateOf(str) == IF str = "2024-01-01T00:00:00Z" THEN str ELSE "Invalid Date"

\* mutant: the timers of the entries are not cleared
ClearedNothing(timers, ids) == timers

\* clearTimeout(entry.timer) for the entries ids
Cleared(timers, ids) == timers \ ids

\* mutant: the test is inverted
OkBranchInverted(data) == ~Truthy(ProxyGet(data, "ok"))

\* `if (data.ok)` at line 115
OkBranch(data) == Truthy(ProxyGet(data, "ok"))

\* mutant: a response frame that finds its entry takes the whole table
MatchedAll(data) == IF ProxyGet(data, "id") \in pending THEN pending ELSE {}

\* the response branch's effect on the table, lines 111-117: the frame's id
\* is looked up, and a found entry is deleted, its timer cleared and its
\* promise resolved or rejected with the frame
Matched(data) == pending \cap {ProxyGet(data, "id")}

AfterResponse(cs, data) ==
    IF Matched(data) = {} THEN cs
    ELSE SettleIn(cs, ProxyGet(data, "id"),
                  IF OkBranch(data) THEN "resolved" ELSE "rejected",
                  FrameValue(data.target))

\* mutant: the id is not looked at
IsNumberAlways(v) == TRUE

\* `typeof data.id === "number"` at line 110
IsNumber(v) == v # 0

\* mutant: the response events are emitted only for a frame that found its
\* request
ResponseEventsWhenMatched(data) ==
    IF Matched(data) = {} THEN <<>>
    ELSE <<"response">> \o (IF ProxyGet(data, "responding_to") # ""
                            THEN <<"response:" \o ProxyGet(data, "responding_to")>>
                            ELSE <<>>)

\* the events the response branch emits, lines 118-121: `response`, and
\* `response:<responding_to>` when responding_to is a string
ResponseEvents(data) ==
    <<"response">> \o (IF ProxyGet(data, "responding_to") # ""
                       THEN <<"response:" \o ProxyGet(data, "responding_to")>>
                       ELSE <<>>)

\* mutant: the handlers run before the statements of the branch
SeenBeforeBranch(before, after) == before

\* what the handlers of a branch's emission observe of a field the branch
\* writes: the emit call (lines 107, 118, 120) comes after the statements
\* of the branch (lines 106, 113-116), so they observe what those left
SeenByHandlers(before, after) == after

\* ws.onmessage of transport i with the text frame raw
\* frames whose type is the name of a lifecycle event, and one frame of the
\* kinds classified before the branch of line 122: a keepalive, a response
\* whose id is never pending, a text that is no JSON
LifecycleFrames ==
    {[NoFrame EXCEPT !.json = TRUE, !.type = name] : name \in LifecycleNames}
    \cup {[NoFrame EXCEPT !.json = TRUE, !.type = "keepalive"],
          ResponseFrame(MaxCalls + 1, "true", ""),
          NoFrame}

onmessage(i, raw) ==
    /\ i \in 1..Len(socks)
    /\ socks[i] \in {1, 2}
    /\ LET data == tryCatch(raw)
           type == ProxyGet(data, "type")
           msg == emit("message", raw, pending', reqTimers', lastUpdate', calls')
       IN
       IF ~data.metaOk
       THEN /\ UNCHANGED <<pending, reqTimers, calls, lastUpdate, removals>>
            /\ log' = <<>>
       ELSE IF type = "keepalive"
       THEN /\ lastUpdate' = IF ProxyGet(data, "server_time") # ""
                             THEN DateOf(ProxyGet(data, "server_time")) ELSE lastUpdate
            /\ UNCHANGED <<pending, reqTimers, calls, removals>>
            /\ log' = emit("keepalive", raw, pending, reqTimers,
                           SeenByHandlers(lastUpdate, lastUpdate'), calls) \o msg
       ELSE IF type = "event" /\ ProxyGet(data, "event") = "transaction"
       THEN /\ UNCHANGED <<pending, reqTimers, calls, lastUpdate, removals>>
            /\ log' = IF ProxyGet(data, "tx") = "object"
                      THEN emit("transaction", raw, pending, reqTimers, lastUpdate, calls)
                           \o msg
                      ELSE <<>>
       ELSE IF type = "response" /\ IsNumber(ProxyGet(data, "id"))
       THEN /\ pending' = pending \ Matched(data)
            /\ reqTimers' = Cleared(reqTimers, Matched(data))
            /\ removals' = Counted(removals, Matched(data))
            /\ calls' = AfterResponse(calls, data)
            /\ UNCHANGED lastUpdate
            /\ log' = emitAll(ResponseEvents(data), raw,
                              SeenByHandlers(pending, pending'),
                              SeenByHandlers(reqTimers, reqTimers'), lastUpdate,
                              SeenByHandlers(calls, calls'))
                      \o msg
       ELSE /\ UNCHANGED <<pending, reqTimers, calls, lastUpdate, removals>>
            /\ log' = (IF type # ""
                       THEN emit(type, raw, pending, reqTimers, lastUpdate, calls)
                       ELSE <<>>)
                      \o msg
    /\ UNCHANGED <<autoReconnect, url, starts, thrown, hung, shouldReconnect, ws, socks, wire, nextId, reconn,
                   listeners, closeCalled, reopens>>

\* mutant: the test is inverted
ArmsReconnectInverted(flag) == ~flag

\* `if (this.shouldReconnect)` at line 141: whether onclose arms a timer
ArmsReconnect(flag) == flag

\* mutant: onclose rejects the entries and does not clear the table
ClearedPendingKeeps(p) == p

\* what onclose leaves of the table, lines 131-138
ClearedPending(p) == {}

\* whether the emission of ev invokes a handler that calls close(): hClose
\* is such a handler, registered under `close` only
HandlerCloses(ev) == ev \in DOMAIN listeners /\ InSeq("hClose", listeners[ev])

\* mutant: the flag is read before the `close` emission
FlagReadBeforeEmit(before, after) == before

\* the value of shouldReconnect that line 141 tests: the statement comes
\* after the emit call of line 140, so it is the value the handlers left
FlagRead(before, after) == after

\* ws.onclose of transport i: the transport has closed.  A `close` handler
\* that calls close() runs lines 202-203 inside the emission of line 140.
onclose(i) ==
    /\ i \in 1..Len(socks)
    /\ socks[i] \in {0, 1, 2}
    /\ LET closed == [socks EXCEPT ![i] = 3] IN
       IF HandlerCloses("close")
       THEN /\ shouldReconnect' = ClosedFlag
            /\ socks' = [closed EXCEPT ![ws] = AfterClose(@)]
            /\ closeCalled' = TRUE
       ELSE /\ socks' = closed
            /\ UNCHANGED <<shouldReconnect, closeCalled>>
    /\ pending' = ClearedPending(pending)
    /\ reqTimers' = Cleared(reqTimers, pending)
    /\ removals' = Counted(removals, pending \ pending')
    /\ calls' = SettleAll(calls, pending, "rejected")
    /\ reconn' = IF ArmsReconnect(FlagRead(shouldReconnect, shouldReconnect'))
                 THEN reconn + 1 ELSE reconn
    /\ log' = emit("close", NoFrame, pending', reqTimers', lastUpdate, calls')
    /\ UNCHANGED <<autoReconnect, url, starts, thrown, hung, ws, wire, nextId, listeners,
                   lastUpdate, reopens>>

\* ------------------------------------------------------------- reconnection timer
\* whether the callback of a reconnection timer calls open(): the callback
\* is `() => this.open()`, with no look at shouldReconnect
TimerOpens(flag) == TRUE

\* the callback of a reconnection timer, line 143
reconnectTimer(raises) ==
    /\ reconn > 0
    /\ reconn' = reconn - 1
    /\ IF TimerOpens(shouldReconnect)
       THEN OpenBody(raises) /\ reopens' = reopens + 1
       ELSE log' = <<>> /\ UNCHANGED <<ws, socks, reopens>>
    /\ UNCHANGED <<autoReconnect, url, starts, thrown, hung, shouldReconnect, wire, nextId, pending, reqTimers,
                   calls, listeners, lastUpdate, closeCalled, removals>>

\* the callback of a reconnection timer when `new Ctor(url, protocols)` at
\* line 97 raises: the previous handle was asked to close at line 95, no
\* transport is constructed, this.ws stays, and the exception leaves open()
\* and the callback; nothing in the callback arms another timer
reconnectTimerThrows ==
    /\ reconn > 0
    /\ reconn' = reconn - 1
    /\ reopens' = reopens + 1
    /\ socks' = IF ws = 0 THEN socks ELSE [socks EXCEPT ![ws] = AfterClose(@)]
    /\ log' = <<>>
    /\ UNCHANGED <<autoReconnect, url, starts, thrown, hung, shouldReconnect, ws, wire, nextId, pending, reqTimers,
                   calls, listeners, lastUpdate, closeCalled, removals>>

\* what options gives for autoReconnect: nothing (no options, or options
\* without the key), true, false, or the key with the value undefined
AutoReconnectOptions == {"absent", "true", "false", "undefined"}

\* mutant: the default is false
MergedAutoReconnectDefaultOff(opt) == opt = "true"

\* { autoReconnect: true, ...(options ?? {}) }.autoReconnect as `!!` reads
\* it at line 72: the default when the key is absent, else the key's value
MergedAutoReconnect(opt) == IF opt = "absent" THEN TRUE ELSE opt = "true"

\* ------------------------------------------------------------- specification
\* the state after `new WS(url, options)`: the constructor's defaults, with
\* options.autoReconnect given as true, given as false, or left out (true)
Init ==
    /\ autoReconnect \in {MergedAutoReconnect(opt) : opt \in AutoReconnectOptions}
    /\ url = <<>>
    /\ starts = 0
    /\ thrown = ""
    /\ hung = FALSE
    /\ shouldReconnect = autoReconnect
    /\ ws = 0
    /\ socks = <<>>
    /\ wire = <<>>
    /\ nextId = 0
    /\ pending = {}
    /\ reqTimers = {}
    /\ reconn = 0
    /\ calls = <<>>
    /\ listeners = <<>>
    /\ lastUpdate = ""
    /\ closeCalled = FALSE
    /\ removals = [i \in Ids |-> 0]
    /\ reopens = 0
    /\ log = <<>>

Next ==
    \/ connect(LiteralUrl, TRUE)
    \/ open(FALSE)
    \/ close
    \/ \E type \in MsgTypes : request(type, TRUE)
    \/ \E ev \in ListenNames, h \in Handlers : Room(ev, h, MaxListens) /\ on(ev, h)
    \/ \E ev \in ListenNames, h \in Handlers : Held(ev, h) /\ off(ev, h)
    \/ \E i \in 1..MaxSockets : onopen(i)
    \/ \E i \in 1..MaxSockets, raw \in CoreFrames : onmessage(i, raw)
    \/ \E i \in 1..MaxSockets : onerror(i, PlainErrorEvent)
    \/ \E i \in 1..MaxSockets : onclose(i)
    \/ \E id \in Ids : requestTimeout(id)
    \/ reconnectTimer(FALSE)

Spec == Init /\ [][Next]_vars

\* the transports of one client and its requests, over a transport
\* implementation whose close() may raise
NextOpen ==
    \/ connect(LiteralUrl, TRUE)
    \/ \E raises \in BOOLEAN : open(raises)
    \/ close
    \/ request("subscribe", TRUE)
    \/ \E i \in 1..MaxSockets : onopen(i)
    \/ \E i \in 1..MaxSockets : onclose(i)
    \/ \E raises \in BOOLEAN : reconnectTimer(raises)

SpecOpen == Init /\ [][NextOpen]_vars

\* one connection of a client built with the default options, its bus and
\* a request made on it: every kind of frame arrives, handlers are
\* registered under the event names of the classification
InitBus == Init /\ autoReconnect

NextBus ==
    \/ connect(LiteralUrl, TRUE)
    \/ Len(calls) < MaxBusCalls /\ request("subscribe", TRUE)
    \/ \E ev \in BusNames, h \in Handlers : Room(ev, h, MaxBusListens) /\ on(ev, h)
    \/ \E ev \in BusNames, h \in Handlers : Held(ev, h) /\ off(ev, h)
    \/ onopen(1)
    \/ \E raw \in Frames : onmessage(1, raw)
    \/ onclose(1)

SpecBus == InitBus /\ [][NextBus]_vars

\* one connection of a client built with the default options and its bus:
\* handlers are registered, registered again and removed, whether they are
\* registered or not, frames arrive and the transport closes
NextIso ==
    \/ connect(LiteralUrl, TRUE)
    \/ \E ev \in IsoNames, h \in Handlers : Room(ev, h, MaxBusListens) /\ on(ev, h)
    \/ \E ev \in IsoNames, h \in Handlers : off(ev, h)
    \/ onopen(1)
    \/ \E raw \in Frames : onmessage(1, raw)
    \/ onclose(1)

SpecIso == InitBus /\ [][NextIso]_vars

\* the event names a caller registers handlers under in SpecSub: one that
\* subscribe() is called with
SubNames == {"transactions"}

\* one connection of a client whose holder makes its requests through
\* subscribe() and registers handlers for the pushes
NextSub ==
    \/ connect(LiteralUrl, TRUE)
    \/ close
    \/ \E ev \in SubNames, h \in Handlers : Room(ev, h, MaxListens) /\ on(ev, h)
    \/ \E ev \in SubNames, h \in Handlers : Held(ev, h) /\ off(ev, h)
    \/ \E names \in SubscribeInputs : subscribe(names)
    \/ onopen(1)
    \/ \E raw \in CoreFrames : onmessage(1, raw)
    \/ onclose(1)
    \/ \E id \in Ids : requestTimeout(id)

SpecSub == Init /\ [][NextSub]_vars

\* the transports of one client over a transport constructor that may
\* raise, and its requests.  An armed timer runs its callback: the event
\* loop guarantees it; whether the constructor raises then is up to the
\* transport implementation.
NextRetry ==
    \/ connect(LiteralUrl, TRUE)
    \/ close
    \/ request("subscribe", TRUE)
    \/ \E i \in 1..MaxSockets : onopen(i)
    \/ \E i \in 1..MaxSockets : onclose(i)
    \/ reconnectTimer(FALSE)
    \/ reconnectTimerThrows

SpecRetry ==
    /\ Init
    /\ [][NextRetry]_vars
    /\ WF_vars(reconnectTimer(FALSE) \/ reconnectTimerThrows)

\* the ways to obtain a client, and what the client does afterwards
NextConnect ==
    \/ \E arg \in ConnectInputs, startOk \in BOOLEAN : connect(arg, startOk)
    \/ close
    \/ request("subscribe", TRUE)
    \/ \E i \in 1..MaxSockets : onopen(i)
    \/ \E i \in 1..MaxSockets : onclose(i)
    \/ reconnectTimer(FALSE)

SpecConnect == Init /\ [][NextConnect]_vars

\* the event names a caller registers handlers under in SpecErr
ErrNames == {"error"}

\* one connection of a client, a request made on it and its `error`
\* handlers: the transport reports errors of every shape
NextErr ==
    \/ connect(LiteralUrl, TRUE)
    \/ close
    \/ Len(calls) < MaxBusCalls /\ request("subscribe", TRUE)
    \/ \E ev \in ErrNames, h \in Handlers : Room(ev, h, MaxBusListens) /\ on(ev, h)
    \/ \E ev \in ErrNames, h \in Handlers : Held(ev, h) /\ off(ev, h)
    \/ onopen(1)
    \/ \E ev \in ErrorEvents : onerror(1, ev)
    \/ onclose(1)

SpecErr == Init /\ [][NextErr]_vars

\* the transports of one client whose `close` handlers may call close(),
\* and a request made on them; the holder itself does not call close()
NextClose ==
    \/ connect(LiteralUrl, TRUE)
    \/ Len(calls) < MaxBusCalls /\ request("subscribe", TRUE)
    \/ \E h \in CloseHandlers : Room("close", h, MaxBusListens) /\ on("close", h)
    \/ \E h \in CloseHandlers : Held("close", h) /\ off("close", h)
    \/ \E i \in 1..MaxSockets : onopen(i)
    \/ \E i \in 1..MaxSockets : onclose(i)
    \/ reconnectTimer(FALSE)

SpecClose == Init /\ [][NextClose]_vars

\* one client whose holder calls open() again, with or without a transport
\* constructor to be found
NextCtor ==
    \/ connect(LiteralUrl, TRUE)
    \/ \E impl \in BOOLEAN, ambient \in BOOLEAN : openIn(impl, ambient)
    \/ Len(calls) < MaxBusCalls /\ request("subscribe", TRUE)
    \/ \E ev \in ListenNames, h \in Handlers : Room(ev, h, MaxListens) /\ on(ev, h)
    \/ \E ev \in ListenNames, h \in Handlers : Held(ev, h) /\ off(ev, h)
    \/ \E i \in 1..MaxSockets : onopen(i)
    \/ \E i \in 1..MaxSockets : onclose(i)

SpecCtor == Init /\ [][NextCtor]_vars

\* one client whose holder replaces the transport with open() before it
\* makes its requests, and whose shouldReconnect is left to arm timers that
\* do not fire in the time looked at: every request is sent on the handle
\* that stays current, and the callbacks of the replaced transports come
\* late
NextSuper ==
    \/ connect(LiteralUrl, TRUE)
    \/ calls = <<>> /\ open(FALSE)
    \/ \E type \in MsgTypes : request(type, TRUE)
    \/ \E ev \in ListenNames, h \in Handlers : Room(ev, h, MaxListens) /\ on(ev, h)
    \/ \E ev \in ListenNames, h \in Handlers : Held(ev, h) /\ off(ev, h)
    \/ \E i \in 1..MaxSockets : onopen(i)
    \/ \E i \in 1..MaxSockets, raw \in CoreFrames : onmessage(i, raw)
    \/ \E i \in 1..MaxSockets : onclose(i)

SpecSuper == Init /\ [][NextSuper]_vars

\* one client whose requests include messages on which line 193
\* (`this.ws.send(JSON.stringify(payload))`) raises
NextSend ==
    \/ connect(LiteralUrl, TRUE)
    \/ \E serializable \in BOOLEAN : request("subscribe", serializable)
    \/ \E i \in 1..MaxSockets : onopen(i)
    \/ \E i \in 1..MaxSockets, raw \in CoreFrames : onmessage(i, raw)
    \/ \E i \in 1..MaxSockets : onclose(i)
    \/ \E id \in Ids : requestTimeout(id)
    \/ reconnectTimer(FALSE)

SpecSend == Init /\ [][NextSend]_vars

\* one connection of a client with handlers under the lifecycle event
\* names, on which the server sends frames typed with those names
NextLife ==
    \/ connect(LiteralUrl, TRUE)
    \/ \E ev \in LifecycleNames, h \in Handlers : Room(ev, h, MaxBusListens) /\ on(ev, h)
    \/ \E ev \in LifecycleNames, h \in Handlers : Held(ev, h) /\ off(ev, h)
    \/ onopen(1)
    \/ \E raw \in LifecycleFrames : onmessage(1, raw)
    \/ onerror(1, PlainErrorEvent)
    \/ onclose(1)

SpecLife == Init /\ [][NextLife]_vars

\* the transports of one client whose `open` handlers call on() and off()
\* for `open` while they run; nothing runs once a callback is in a loop
\* it does not leave
NextLive ==
    \/ ~hung /\ connect(LiteralUrl, TRUE)
    \/ \E h \in LiveHandlers : ~hung /\ Room("open", h, MaxBusListens) /\ on("open", h)
    \/ \E h \in LiveHandlers : ~hung /\ Held("open", h) /\ off("open", h)
    \/ \E i \in 1..MaxSockets : onopenLive(i)
    \/ \E i \in 1..MaxSockets : ~hung /\ onclose(i)
    \/ ~hung /\ reconnectTimer(FALSE)

SpecLive == Init /\ [][NextLive]_vars

\* ------------------------------------------------------------- claims
CallIds == 1..Len(calls)

\* the call made with id awaits its promise: it has not received its outcome
Awaiting(c) == calls[c].promise = "pending" /\ calls[c].result.st = "none"

IsResponse(raw) == raw.json /\ raw.type = "response" /\ raw.id # 0

\* C1: a request() call completes as a success only with a response frame
\* whose ok is true; a matching frame with ok = false makes it fail.
C1_SuccessOnlyWhenOkTrue ==
    \A c \in CallIds : calls[c].result.st = "ok" => calls[c].result.frame.ok = "true"

\* C2: a response frame with ok = true and the id of a request that still
\* awaits its outcome makes the call succeed with that frame and removes the
\* id from the table, which resolves the promise exactly once; no outcome
\* once delivered ever changes, and a response frame whose id is not in the
\* table changes neither the calls nor the table.
C2_OkResponseResolvesOnce ==
    /\ [][\A c \in CallIds :
            LET raw == ResponseFrame(calls[c].id, "true", "subscribe") IN
            (/\ Awaiting(c) /\ calls[c].id \in pending
             /\ \E i \in 1..Len(socks) : onmessage(i, raw))
            => /\ calls'[c].result = resultOk(raw)
               /\ calls'[c].settles = 1
               /\ raw.id \notin pending'
               /\ removals'[raw.id] = 1]_vars
    /\ [][\A c \in CallIds :
            calls[c].result.st # "none" => calls'[c].result = calls[c].result]_vars
    /\ [][\/ calls' = calls /\ pending' = pending
          \/ ~\E raw \in CoreFrames :
                /\ IsResponse(raw) /\ raw.id \notin pending
                /\ \E i \in 1..Len(socks) : onmessage(i, raw)]_vars

C2_Witness ==
    \E c \in CallIds :
        /\ calls[c].result.st = "ok" /\ calls[c].result.frame.ok = "true"
        /\ calls[c].id \notin pending /\ removals[calls[c].id] = 1

\* C3: when the timeout callback of a request that still awaits its outcome
\* runs, the call fails with the timeout error naming its type and id and
\* the id leaves the table; the failure is final, whatever arrives later.
C3_TimeoutRejects ==
    /\ [][\A c \in CallIds :
            (Awaiting(c) /\ calls[c].id \in reqTimers /\ requestTimeout(calls[c].id))
            => /\ calls'[c].result =
                    [NoResult EXCEPT !.st = "err", !.message = "Request timed out",
                                     !.mtype = calls[c].type, !.id = calls[c].id]
               /\ calls[c].type # ""
               /\ calls[c].id \notin pending']_vars
    /\ [][\A c \in CallIds :
            calls[c].result.message = "Request timed out"
            => calls'[c] = calls[c] /\ calls[c].id \notin pending']_vars

C3_Witness ==
    \E c \in CallIds :
        /\ calls[c].result.st = "err" /\ calls[c].result.message = "Request timed out"
        /\ calls[c].result.id = calls[c].id /\ calls[c].id \notin pending

\* C4: the close callback of a transport rejects every request that is in
\* the table with the closed-before-response object carrying its own id and
\* empties the table, and it does so before it emits `close`: a `close`
\* handler sees an empty table and no promise left unsettled.
C4_CloseFailsAllBeforeEmit ==
    [][\A i \in 1..MaxSockets :
          onclose(i)
          => /\ pending' = {}
             /\ \A c \in CallIds :
                   calls[c].id \in pending /\ calls[c].promise = "pending"
                   => /\ calls'[c].promise = "rejected"
                      /\ calls'[c].value.kind = "closed"
                      /\ calls'[c].value.frame =
                            [NoFrame EXCEPT !.type = "response", !.ok = "false",
                                            !.id = calls[c].id,
                                            !.responding_to = "unknown"]
                      /\ calls'[c].result.st = "err"
             /\ \A n \in 1..Len(log') :
                   log'[n].ev = "close"
                   => log'[n].pend = {} /\ log'[n].unsettled = {}]_vars

\* the one close callback that has run so far rejected a request and then
\* invoked a `close` handler
C4_Witness ==
    /\ Cardinality({i \in 1..Len(socks) : socks[i] = 3}) = 1
    /\ \E n \in 1..Len(log) : log[n].ev = "close" /\ log[n].pend = {}
    /\ \E c \in CallIds : calls[c].promise = "rejected" /\ calls[c].value.kind = "closed"

\* C5: for every request id the entry is deleted from the table at most
\* once and the promise is settled at most once, by the same event: an id
\* is in the table exactly while its promise is unsettled, and a settled
\* promise was settled once, by the one event that deleted the entry.
C5_OneTerminalEvent ==
    \A c \in CallIds :
        calls[c].promise # "none"
        => LET id == calls[c].id IN
           /\ removals[id] <= 1
           /\ calls[c].settles <= 1
           /\ calls[c].settles = removals[id]
           /\ (id \in pending) = (calls[c].promise = "pending")
           /\ (calls[c].promise = "pending") = (removals[id] = 0)
           /\ (id \in reqTimers) => (id \in pending)

C5_Witness ==
    /\ Len(calls) = MaxCalls
    /\ \A c \in CallIds : calls[c].settles = 1 /\ removals[calls[c].id] = 1
    /\ \E c, d \in CallIds :
          calls[c].promise = "resolved" /\ calls[d].promise = "rejected"

\* the calls that were given an id, in call order
Allocated == SelectSeq(calls, LAMBDA call : call.id # 0)

StrictlyIncreasing(ids) == \A j, k \in 1..Len(ids) : j < k => ids[j] < ids[k]

SentIds == [k \in 1..Len(wire) |-> wire[k].id]

\* C6 as stated: the ids of the sent request frames start at 1, increase
\* strictly in call order and belong to one call each.
C6_SentIdsStartAtOne ==
    /\ wire # <<>> => wire[1].id = 1
    /\ StrictlyIncreasing(SentIds)
    /\ \A k \in 1..Len(wire) :
          Cardinality({c \in CallIds : calls[c].id = wire[k].id}) = 1

\* C6 as amended: ids are given out from 1 upwards, one more per call that
\* passes the type check, so they increase strictly in call order and no
\* two calls share one, across reconnections too; the ids of the sent frames
\* are among them, increase strictly and belong to one call each, but the
\* first sent frame need not carry id 1.
C6_IdsIncreasingNeverReused ==
    /\ \A k \in 1..Len(Allocated) : Allocated[k].id = k
    /\ nextId = Len(Allocated)
    /\ \A k \in 1..Len(wire) : wire[k].id >= 1
    /\ StrictlyIncreasing(SentIds)
    /\ \A k \in 1..Len(wire) :
          Cardinality({c \in CallIds : calls[c].id = wire[k].id}) = 1

\* the first frame sent carries id 2, on the second transport
C6_Witness ==
    /\ wire # <<>> /\ wire[1].id = 2
    /\ Len(socks) = 2

\* C7: once close() has been called, a reconnection timer that fires does
\* not reopen: it constructs no transport.
C7_CloseCancelsReopen ==
    [][(closeCalled /\ reconn' = reconn - 1) => (socks' = socks /\ ws' = ws)]_vars

ClosedCount == Cardinality({i \in 1..Len(socks) : socks[i] = 3})

\* C8: with autoReconnect true and close() never called, every transport
\* close arms exactly one reconnection timer and constructs nothing itself,
\* and every timer that fires makes exactly one open() call, which
\* constructs one transport: closes = timers still armed + reopens made.
C8_OneReopenPerClose ==
    /\ []((autoReconnect /\ ~closeCalled) => ClosedCount = reconn + reopens)
    /\ [][\A i \in 1..MaxSockets :
            (onclose(i) /\ autoReconnect /\ ~closeCalled)
            => /\ reconn' = reconn + 1
               /\ reopens' = reopens
               /\ Len(socks') = Len(socks) /\ ws' = ws]_vars
    /\ [][reconn' < reconn
            => /\ reconn' = reconn - 1
               /\ reopens' = reopens + 1
               /\ Len(socks') = Len(socks) + 1
               /\ ws' = Len(socks')
               /\ socks'[ws'] = 0]_vars

C8_Witness ==
    /\ autoReconnect /\ ~closeCalled
    /\ ClosedCount = 1 /\ reopens = 1 /\ reconn = 0
    /\ Len(socks) = 2

\* C9: shouldReconnect changes only in close(), and only to false; after a
\* close() call it is false for ever, whatever runs later.
C9_OnlyCloseDisables ==
    /\ [][shouldReconnect' # shouldReconnect => (close /\ ~shouldReconnect')]_vars
    /\ [][close => ~shouldReconnect']_vars
    /\ [](closeCalled => ~shouldReconnect)

\* close() was called on a manager built with autoReconnect, and a
\* transport was constructed and opened afterwards or before
C9_Witness ==
    /\ autoReconnect /\ closeCalled /\ ~shouldReconnect
    /\ Len(socks) = 2 /\ socks[2] = 1 /\ socks[1] = 3

\* C10: a request() call whose type is missing or not a string, or that is
\* made while the current transport is not open, returns an error at once:
\* it sends nothing, adds no entry to the table and arms no timer.
C10_LocalValidationFailure ==
    [][Len(calls') = Len(calls) + 1
        => LET call == calls'[Len(calls')] IN
           (call.type = "" \/ ws = 0 \/ socks[ws] # 1)
           => /\ call.result.st = "err"
              /\ call.result.message =
                    (IF call.type = "" THEN "Request message must include a string 'type'"
                     ELSE "WebSocket is not open")
              /\ call.promise = "none"
              /\ wire' = wire
              /\ pending' = pending
              /\ reqTimers' = reqTimers]_vars

C10_Witness ==
    /\ \E c \in CallIds : calls[c].result.message = "WebSocket is not open"
    /\ \E c \in CallIds :
          calls[c].result.message = "Request message must include a string 'type'"
    /\ wire = <<>> /\ pending = {} /\ reqTimers = {}

\* the frames subscribe(names) has sent when the counter stood at n
SubscribeFrames(names, n) ==
    [k \in 1..Len(names) |-> [type |-> "subscribe", event |-> names[k], id |-> n + k]]

\* C11 as stated: a subscribe() call adds no entry to the table, arms no
\* timeout timer and does not advance the request id counter.
C11_SubscribeUntracked ==
    [][\A names \in SubscribeInputs :
          subscribe(names)
          => pending' = pending /\ reqTimers' = reqTimers /\ nextId' = nextId]_vars

\* C11 as amended: subscribe() makes one request() call per name, in the
\* order given: every call takes the next id; on an open transport it adds
\* its id to the table, arms its timer and sends {type: "subscribe", event:
\* <name>, id}; on a transport that is not open it sends and tracks nothing
\* and its error goes nowhere.  No handler is registered.
C11_SubscribeIsRequest ==
    [][\A names \in SubscribeInputs :
          subscribe(names)
          => LET new == (nextId + 1)..(nextId + Len(names)) IN
             /\ nextId' = nextId + Len(names)
             /\ Len(calls') = Len(calls) + Len(names)
             /\ listeners' = listeners
             /\ IF socks[ws] = 1
                THEN /\ pending' = pending \cup new
                     /\ reqTimers' = reqTimers \cup new
                     /\ wire' = wire \o SubscribeFrames(names, nextId)
                     /\ \A k \in 1..Len(names) :
                           /\ calls'[Len(calls) + k].promise = "pending"
                           /\ calls'[Len(calls) + k].id = nextId + k
                ELSE /\ pending' = pending /\ reqTimers' = reqTimers /\ wire' = wire
                     /\ \A k \in 1..Len(names) :
                           calls'[Len(calls) + k].result.message =
                               "WebSocket is not open"]_vars

\* subscribe(["motd", "transactions"]) on an open transport
C11_Witness ==
    /\ wire = SubscribeFrames(<<"motd", "transactions">>, 0)
    /\ pending = {1, 2} /\ reqTimers = {1, 2} /\ nextId = 2

\* C12: when open() has run and the new transport is in place, the table
\* is empty and no request made before is left without its outcome; open()
\* sends no frame again.
C12_NoPendingSurvivesOpen ==
    [][Len(socks') = Len(socks) + 1
        => /\ pending' = {}
           /\ \A c \in CallIds : ~Awaiting(c)'
           /\ wire' = wire]_vars

\* a transport that is connecting or open
Live(rs) == rs \in {0, 1}

Received(raw) ==
    /\ socks' = socks /\ listeners' = listeners /\ wire' = wire
    /\ log' = <<>> \/ log'[1].frame = raw
    /\ onmessage(1, raw)

\* C14: a text frame that is no JSON is dropped: no handler of any event,
\* `message` included, is invoked for it, and the table, the timers, the
\* calls and the last-observed server time stay as they were.
C14_ParseFailureDropped ==
    [][\A raw \in Frames :
          (~raw.json /\ Received(raw))
          => /\ log' = <<>>
             /\ pending' = pending /\ reqTimers' = reqTimers /\ calls' = calls
             /\ lastUpdate' = lastUpdate /\ removals' = removals]_vars

\* a `message` handler is registered on an open transport with a request
\* pending and a server time observed, and the last callback invoked nobody
C14_Witness ==
    /\ ws = 1 /\ socks[1] = 1
    /\ "message" \in DOMAIN listeners
    /\ pending = {1} /\ lastUpdate # ""
    /\ log = <<>>

\* the handlers registered under ev, in registration order
HandlersOf(ev) == IF ev \in DOMAIN listeners THEN listeners[ev] ELSE <<>>

\* the handlers a callback invoked for ev with payload frame, in order
InvokedFor(l, ev, frame) ==
    LET es == SelectSeq(l, LAMBDA e : e.ev = ev /\ e.frame = frame)
    IN [n \in 1..Len(es) |-> es[n].h]

\* the event names of the invocations of l, in order
EventsOf(l) == [n \in 1..Len(l) |-> l[n].ev]

\* every invocation for an event of before comes before every one of after
Precedes(l, before, after) ==
    \A j, k \in 1..Len(l) : (l[j].ev = before /\ l[k].ev = after) => j < k

\* C15: for a frame of type "response" with a numeric id, whether its id is
\* in the table or not, every `response` handler is invoked once with the
\* frame, then every `response:<responding_to>` handler when responding_to
\* is a string, then the `message` handlers; no handler of another event is
\* invoked for it, so none of `transaction` or `keepalive`.
C15_ResponseEvents ==
    [][\A raw \in Frames :
          (IsResponse(raw) /\ Received(raw))
          => LET scoped == "response:" \o raw.responding_to IN
             /\ InvokedFor(log', "response", raw) = HandlersOf("response")
             /\ raw.responding_to # ""
                => /\ InvokedFor(log', scoped, raw) = HandlersOf(scoped)
                   /\ Precedes(log', "response", scoped)
             /\ \A n \in 1..Len(log') :
                   /\ log'[n].frame = raw
                   /\ \/ log'[n].ev \in {"response", "message"}
                      \/ raw.responding_to # "" /\ log'[n].ev = scoped]_vars

\* the response to request 1 resolved it and was then handed to the
\* `response` handler and to the `response:subscribe` handler, in this order
C15_Witness ==
    /\ EventsOf(log) = <<"response", "response:subscribe">>
    /\ log[1].frame.id = 1 /\ log[1].pend = {}
    /\ \E c \in CallIds : calls[c].id = 1 /\ calls[c].promise = "resolved"

\* the events of the one branch the classification of section 4.2 takes
\* for a parsed frame
BranchEvents(raw) ==
    CASE raw.type = "keepalive" -> {"keepalive"}
      [] raw.type = "event" /\ raw.event = "transaction" -> {"transaction"}
      [] raw.type = "response" /\ raw.id # 0 ->
            {"response", "response:" \o raw.responding_to}
      [] raw.type # "" -> {raw.type}
      [] OTHER -> {}

\* C16: a parsed frame is handled by one branch only: besides the
\* `message` handlers only handlers of its own branch's events are invoked,
\* the table and the calls change only for a response with a numeric id and
\* the last-observed server time only for a keepalive.  A keepalive frame
\* sets the last-observed server time to its server_time when that is a
\* string, before it invokes every `keepalive` handler once.
C16_OneBranch ==
    [][\A raw \in Frames :
          (raw.json /\ Received(raw))
          => /\ \A n \in 1..Len(log') :
                   log'[n].ev \in BranchEvents(raw) \cup {"message"}
             /\ IsResponse(raw) \/ (pending' = pending /\ calls' = calls)
             /\ raw.type = "keepalive" \/ lastUpdate' = lastUpdate
             /\ raw.type = "keepalive"
                => /\ lastUpdate' = IF raw.server_time = "" THEN lastUpdate
                                    ELSE raw.server_time
                   /\ InvokedFor(log', "keepalive", raw) = HandlersOf("keepalive")
                   /\ \A n \in 1..Len(log') : log'[n].lu = lastUpdate']_vars

\* a keepalive with a server time was handed to the `keepalive` handler and
\* then to the `message` handler, the time already stored
C16_Witness ==
    /\ EventsOf(log) = <<"keepalive", "message">>
    /\ lastUpdate = "2024-01-01T00:00:00Z"
    /\ log[1].lu = lastUpdate /\ log[1].frame.server_time = lastUpdate

\* C17: for every parsed frame the `message` handlers are each invoked
\* exactly once with the frame, after the handlers of the frame's specific
\* events.
C17_MessageOncePerFrame ==
    [][\A raw \in Frames :
          (raw.json /\ Received(raw))
          => /\ InvokedFor(log', "message", raw) = HandlersOf("message")
             /\ \A ev \in BranchEvents(raw) \ {"message"} :
                   Precedes(log', ev, "message")]_vars

\* a parsed frame of the named-event branch: its type is a string and it is
\* no keepalive, no transaction event and no response with a numeric id
IsNamed(raw) ==
    /\ raw.json /\ raw.type \notin {"", "keepalive"}
    /\ ~(raw.type = "event" /\ raw.event = "transaction")
    /\ ~(raw.type = "response" /\ raw.id # 0)

\* the invocations of the handlers hs for ev, as pairs
Pairs(ev, hs) == [n \in 1..Len(hs) |-> <<ev, hs[n]>>]

\* C18: for a frame of the named-event branch, a response whose id is no
\* number included, the handlers registered under the frame's type are
\* invoked with the frame, then the `message` handlers, and nobody else;
\* the table, the timers, the calls and the last-observed server time stay
\* as they were.
C18_NamedEvent ==
    [][\A raw \in Frames :
          (IsNamed(raw) /\ Received(raw))
          => /\ [n \in 1..Len(log') |-> <<log'[n].ev, log'[n].h>>] =
                   Pairs(raw.type, HandlersOf(raw.type))
                   \o Pairs("message", HandlersOf("message"))
             /\ \A n \in 1..Len(log') : log'[n].frame = raw
             /\ pending' = pending /\ reqTimers' = reqTimers /\ calls' = calls
             /\ lastUpdate' = lastUpdate]_vars

\* a response whose id is no number was handed to the `response` handler
\* while request 1 stayed pending
C18_Witness ==
    /\ log # <<>> /\ log[1].ev = "response" /\ log[1].frame.id = 0
    /\ log[1].pend = {1} /\ pending = {1}
    /\ "response:subscribe" \in DOMAIN listeners

\* how often h occurs in hs
Count(h, hs) == Cardinality({n \in 1..Len(hs) : hs[n] = h})

\* C19: the handlers of an event form a set.  on(X, h) leaves h registered
\* under X exactly once, whether it was registered before or not, and
\* off(X, h) leaves it not registered at all; neither touches another
\* handler or event.  An emission of X invokes exactly the handlers
\* registered under X, each once: h not at all after off(X, h), and once
\* after on(X, h) was called twice.
C19_SetSemantics ==
    /\ [](\A ev \in DOMAIN listeners : \A h \in Handlers : Count(h, listeners[ev]) <= 1)
    /\ [][\A ev \in IsoNames, h \in Handlers :
            on(ev, h)
            => /\ Count(h, HandlersOf(ev)') = 1
               /\ InSeq(h, HandlersOf(ev)) => listeners' = listeners
               /\ \A e \in IsoNames, g \in Handlers :
                     (e # ev \/ g # h) => Count(g, HandlersOf(e)') = Count(g, HandlersOf(e))]_vars
    /\ [][\A ev \in IsoNames, h \in Handlers :
            off(ev, h)
            => /\ Count(h, HandlersOf(ev)') = 0
               /\ \A e \in IsoNames, g \in Handlers :
                     (e # ev \/ g # h) => Count(g, HandlersOf(e)') = Count(g, HandlersOf(e))]_vars
    /\ [][onclose(1)
            => \A h \in Handlers :
                  Count(h, InvokedFor(log', "close", NoFrame)) = Count(h, HandlersOf("close"))]_vars
    /\ [][\A raw \in Frames :
            (raw.json /\ raw.type = "keepalive" /\ Received(raw))
            => \A h \in Handlers :
                  Count(h, InvokedFor(log', "keepalive", raw)) =
                      Count(h, HandlersOf("keepalive"))]_vars

\* of the two handlers one is registered under `close`, and the close
\* emission invoked it once and the other not at all
C19_Witness ==
    /\ listeners = [e \in {"close"} |-> <<"hRec">>]
    /\ EventsOf(log) = <<"close">> /\ log[1].h = "hRec"

\* the events a parsed frame is emitted under, in order, when the frame's
\* branch gets as far as emitting
EmissionsOf(raw) ==
    (CASE raw.type = "keepalive" -> <<"keepalive">>
       [] raw.type = "event" /\ raw.event = "transaction" -> <<"transaction">>
       [] raw.type = "response" /\ raw.id # 0 ->
             <<"response">> \o (IF raw.responding_to # ""
                                THEN <<"response:" \o raw.responding_to>> ELSE <<>>)
       [] raw.type # "" -> <<raw.type>>
       [] OTHER -> <<>>)
    \o <<"message">>

\* the invocations an emission under each event of evs makes when every
\* registered handler is invoked
RECURSIVE AllPairs(_)
AllPairs(evs) ==
    IF evs = <<>> THEN <<>>
    ELSE Pairs(Head(evs), HandlersOf(Head(evs))) \o AllPairs(Tail(evs))

\* C20: a handler that raises stops nothing.  A `close` emission invokes
\* every `close` handler, the raising ones and those registered after
\* them, and the close callback then arms the reconnection timer; a frame
\* that is emitted is handed to every handler of each of its events, the
\* `message` handlers last, whichever of them raise.
C20_HandlerIsolation ==
    /\ [][onclose(1)
            => /\ [n \in 1..Len(log') |-> <<log'[n].ev, log'[n].h>>] =
                     Pairs("close", HandlersOf("close"))
               /\ shouldReconnect => reconn' = reconn + 1]_vars
    /\ [][\A raw \in Frames :
            (/\ raw.json
             /\ ~(raw.type = "event" /\ raw.event = "transaction" /\ raw.tx = "absent")
             /\ Received(raw))
            => [n \in 1..Len(log') |-> <<log'[n].ev, log'[n].h>>] =
                  AllPairs(EmissionsOf(raw))]_vars

\* the `close` handler that raises was invoked, then the one registered
\* after it, and the reconnection timer is armed
C20_Witness ==
    /\ [n \in 1..Len(log) |-> <<log[n].ev, log[n].h>>] =
          <<<<"close", "hThrow">>, <<"close", "hRec">>>>
    /\ reconn = 1 /\ socks[1] = 3

\* C21: the outcome a request() call returns tells the failure kinds apart.
\* A call whose promise the close callback rejected returns an error that
\* carries the closed-before-response message or responding_to "unknown"; a
\* call whose timeout ran returns the timeout error naming its type and id;
\* neither outcome is a success, and a call settled with a frame whose ok
\* is false returns none of the two and no success either.
C21_FailureKindsRecognisable ==
    \A c \in CallIds :
        LET call == calls[c] IN
        /\ (call.promise = "rejected" /\ call.value.kind = "closed")
           => /\ call.result.st = "err"
              /\ \/ call.result.message = "WebSocket closed before response"
                 \/ call.result.frame.responding_to = "unknown"
        /\ (call.promise = "rejected" /\ call.value.kind = "Error")
           => /\ call.result.st = "err"
              /\ call.result.message = "Request timed out"
              /\ call.result.mtype = call.type /\ call.result.id = call.id
        /\ (call.promise # "pending" /\ call.value.kind = "frame"
              /\ call.value.frame.ok = "false")
           => /\ call.result.st # "ok"
              /\ call.result.message \notin
                    {"WebSocket closed before response", "Request timed out"}

\* C22: while shouldReconnect is true, the manager keeps trying: whenever
\* the current transport has closed, another open attempt follows, however
\* many attempts were made before and however they ended, the constructor
\* having raised included.  (Attempts are counted while the bound on
\* transports leaves room for one more.)
C22_KeepsTrying ==
    \A n \in 0..MaxSockets :
        (/\ shouldReconnect /\ ws # 0 /\ socks[ws] = 3
         /\ Len(socks) < MaxSockets /\ reopens = n)
        ~> (reopens > n \/ ~shouldReconnect)

\* the argument is a string that begins with ws:// or wss://, in letters of
\* either case
IsLiteral(arg) ==
    /\ arg.isString
    /\ \E n \in {5, 6} :
          /\ Len(arg.chars) >= n
          /\ [k \in 1..n |-> Lower(arg.chars[k])] \in
                {<<"w", "s", ":", "/", "/">>, <<"w", "s", "s", ":", "/", "/">>}

\* C23: connect with a literal ws:// or wss:// URL builds the client with
\* that URL, character for character, and makes no call to WS.start; with
\* any other argument it calls WS.start once, first, and builds the client
\* with the URL returned; when WS.start fails, connect fails, and no client
\* and no transport exists then or later.
C23_UrlOrStart ==
    /\ [][\A arg \in ConnectInputs, startOk \in BOOLEAN :
            connect(arg, startOk)
            => IF IsLiteral(arg)
               THEN url' = arg.chars /\ starts' = 0 /\ socks' = <<0>> /\ ws' = 1
               ELSE /\ starts' = 1
                    /\ IF startOk
                       THEN url' = StartUrl /\ socks' = <<0>> /\ ws' = 1
                       ELSE url' = <<>> /\ socks' = <<>> /\ ws' = 0]_vars
    /\ []((url # <<>> /\ url # StartUrl) => starts = 0)
    /\ []((starts = 1 /\ url = <<>>) => (socks = <<>> /\ ws = 0))
    /\ [][url # <<>> => url' = url /\ starts' = starts]_vars

\* WS.start failed: one call was made to it, and there is no client
C23_Witness == starts = 1 /\ url = <<>> /\ socks = <<>> /\ ws = 0

\* C24: the error callback of a transport invokes every `error` handler
\* once, with the normalised payload, and does nothing else: whichever
\* handler raises, the callback fails no request, leaves the table, the
\* timers, shouldReconnect and the transports as they were and arms no
\* reconnection timer.
C24_ErrorOnlyEmitted ==
    [][\A ev \in ErrorEvents :
          onerror(1, ev)
          => /\ [n \in 1..Len(log') |-> <<log'[n].ev, log'[n].h>>] =
                   Pairs("error", HandlersOf("error"))
             /\ \A n \in 1..Len(log') :
                   /\ log'[n].frame.message \in {ev.message, ev.str, ev.emessage}
                   /\ ev.message # "" => log'[n].frame.message = ev.message
                   /\ (ev.message = "" /\ ev.str = "")
                      => log'[n].frame.message = ev.emessage
             /\ pending' = pending /\ reqTimers' = reqTimers /\ calls' = calls
             /\ removals' = removals
             /\ shouldReconnect' = shouldReconnect /\ autoReconnect' = autoReconnect
             /\ reconn' = reconn /\ reopens' = reopens
             /\ socks' = socks /\ ws' = ws /\ wire' = wire /\ nextId' = nextId]_vars

\* the error callback invoked the raising `error` handler and then the
\* other one, with the event's message, while request 1 stayed pending on
\* the open transport and no reconnection timer was armed
C24_Witness ==
    /\ [n \in 1..Len(log) |-> <<log[n].ev, log[n].h>>] =
          <<<<"error", "hThrow">>, <<"error", "hRec">>>>
    /\ log[1].frame.message = "m"
    /\ pending = {1} /\ reqTimers = {1} /\ socks = <<1>>
    /\ shouldReconnect /\ reconn = 0

\* C25: a manager built without an autoReconnect option has
\* shouldReconnect true until close() is called: each of its transport
\* closes arms a reconnection timer, and the timer constructs a transport.
\* A manager built with autoReconnect false never has shouldReconnect true,
\* never arms a reconnection timer, and every transport it has was
\* constructed by connect or by an open() call of its holder.
C25_DefaultOnConfiguredOff ==
    /\ []((autoReconnect = MergedAutoReconnect("absent") /\ ~closeCalled)
            => shouldReconnect)
    /\ [][\A i \in 1..MaxSockets :
            (onclose(i) /\ autoReconnect = MergedAutoReconnect("absent") /\ ~closeCalled)
            => reconn' = reconn + 1]_vars
    /\ [][(reconn' < reconn /\ autoReconnect = MergedAutoReconnect("absent"))
            => Len(socks') = Len(socks) + 1 /\ ws' = Len(socks')]_vars
    /\ [](autoReconnect = MergedAutoReconnect("false")
            => ~shouldReconnect /\ reconn = 0 /\ reopens = 0)
    /\ [][(autoReconnect = MergedAutoReconnect("false") /\ Len(socks') > Len(socks))
            => (connect(LiteralUrl, TRUE) \/ open(FALSE))]_vars

\* the first transport of a manager built without the option has closed,
\* and the transport its timer constructed has opened
C25_Witness ==
    /\ autoReconnect = MergedAutoReconnect("absent") /\ ~closeCalled
    /\ socks = <<3, 1>> /\ ws = 2 /\ reopens = 1 /\ reconn = 0

\* C26: the side effects of a frame's classification come before its
\* emission.  When the handlers of `response` and of
\* `response:<responding_to>` run for a frame that found its request in the
\* table, the table no longer holds the id and the request's timeout is
\* no longer armed; when the handlers of `keepalive` run for a frame with a
\* string server_time, lastUpdate is that time already.
C26_EffectsBeforeEmission ==
    [][\A raw \in Frames :
          /\ (IsResponse(raw) /\ raw.id \in pending /\ Received(raw))
             => \A n \in 1..Len(log') :
                   log'[n].ev \in {"response", "response:" \o raw.responding_to}
                   => /\ raw.id \notin log'[n].pend
                      /\ raw.id \notin log'[n].timers
          /\ (raw.json /\ raw.type = "keepalive" /\ raw.server_time # "" /\ Received(raw))
             => \A n \in 1..Len(log') :
                   log'[n].ev = "keepalive" => log'[n].lu = raw.server_time]_vars

\* the `response:subscribe` handler and the `response` handler ran for the
\* response to request 1, which was pending with its timer armed: neither
\* saw the id in the table or the timer armed
C26_Witness ==
    /\ Len(log) = 2 /\ log[1].ev = "response" /\ log[2].ev = "response:subscribe"
    /\ log[1].frame.id = 1 /\ removals[1] = 1
    /\ \A n \in 1..2 : log[n].pend = {} /\ log[n].timers = {}

\* C27: the close callback tests shouldReconnect after the `close`
\* emission.  When one of the `close` handlers calls close() during the
\* emission, the flag is false when it is tested and no reconnection timer
\* is armed for this close, although the flag was true when the transport
\* closed; when none does, the flag is as it was and a timer is armed
\* exactly when it is true.
C27_FlagReadAfterEmission ==
    [][\A i \in 1..MaxSockets :
          onclose(i)
          => IF InSeq("hClose", HandlersOf("close"))
             THEN /\ ~shouldReconnect' /\ reconn' = reconn
                  /\ \E n \in 1..Len(log') : log'[n].h = "hClose"
             ELSE /\ shouldReconnect' = shouldReconnect
                  /\ reconn' = reconn + (IF shouldReconnect THEN 1 ELSE 0)]_vars

\* the only transport of a manager built with autoReconnect has closed, a
\* `close` handler called close() during the emission, and no timer is
\* armed or has fired
C27_Witness ==
    /\ autoReconnect /\ ~shouldReconnect /\ closeCalled
    /\ socks = <<3>> /\ reconn = 0 /\ reopens = 0
    /\ \E n \in 1..Len(log) : log[n].ev = "close" /\ log[n].h = "hClose"

NotOpenBefore(id) ==
    Cardinality({c \in CallIds : /\ calls[c].id # 0 /\ calls[c].id < id
                                 /\ calls[c].result.message = "WebSocket is not open"})

C29_OffOnlyTheNamedEvent ==
    /\ [][\A ev \in IsoNames, h \in Handlers :
            off(ev, h)
            => /\ ~InSeq(h, HandlersOf(ev)) => listeners' = listeners
               /\ \A e \in IsoNames \ {ev} : HandlersOf(e)' = HandlersOf(e)
               /\ HandlersOf(ev)' = Without(h, HandlersOf(ev))]_vars
    /\ [][onclose(1) => InvokedFor(log', "close", NoFrame) = HandlersOf("close")]_vars
    /\ [][\A raw \in Frames :
            (raw.json /\ raw.type = "keepalive" /\ Received(raw))
            => /\ InvokedFor(log', "keepalive", raw) = HandlersOf("keepalive")
               /\ InvokedFor(log', "message", raw) = HandlersOf("message")]_vars

\* hRec is registered under `message` and no longer under `keepalive`, where
\* hThrow still is: the keepalive frame was handed to hThrow under
\* `keepalive` and to hRec under `message`
C29_Witness ==
    /\ DOMAIN listeners = {"keepalive", "message"}
    /\ listeners["keepalive"] = <<"hThrow">> /\ listeners["message"] = <<"hRec">>
    /\ [n \in 1..Len(log) |-> <<log[n].ev, log[n].h>>] =
          <<<<"keepalive", "hThrow">>, <<"message", "hRec">>>>

\* the frames of fs as the pairs of their type and event
TypeAndEvent(fs) == [k \in 1..Len(fs) |-> <<fs[k].type, fs[k].event>>]

\* C30 as stated: every subscribe() call with n names appends n frames to
\* what the transport was given, one of type "subscribe" per name, in the
\* order of the names, and leaves the listeners as they were.
C30_SubscribeAlwaysSends ==
    [][\A names \in SubscribeInputs :
          subscribe(names)
          => /\ Len(wire') = Len(wire) + Len(names)
             /\ TypeAndEvent(SubSeq(wire', Len(wire) + 1, Len(wire'))) =
                   [k \in 1..Len(names) |-> <<"subscribe", names[k]>>]
             /\ listeners' = listeners]_vars

\* C30 as amended: a subscribe() call with n names made while the current
\* transport is open appends n frames to what the transport was given, one
\* of type "subscribe" per name, in the order of the names, each with the
\* request id it took; made while the transport is not open it sends
\* nothing.  In both cases the listeners are as they were.
C30_SubscribeSendsWhenOpen ==
    [][\A names \in SubscribeInputs :
          subscribe(names)
          => /\ listeners' = listeners
             /\ SubSeq(wire', 1, Len(wire)) = wire
             /\ IF socks[ws] = 1
                THEN /\ Len(wire') = Len(wire) + Len(names)
                     /\ TypeAndEvent(SubSeq(wire', Len(wire) + 1, Len(wire'))) =
                           [k \in 1..Len(names) |-> <<"subscribe", names[k]>>]
                     /\ \A k \in 1..Len(names) : wire'[Len(wire) + k].id = nextId + k
                ELSE wire' = wire]_vars

\* subscribe(["motd", "transactions"]) was called on the open transport of
\* a client with a `transactions` handler: two frames were sent, and the
\* handler is the only one registered
C30_Witness ==
    /\ TypeAndEvent(wire) = <<<<"subscribe", "motd">>, <<"subscribe", "transactions">>>>
    /\ socks = <<1>>
    /\ DOMAIN listeners = {"transactions"} /\ listeners["transactions"] = <<"hRec">>

\* C31: an open() call that finds neither a configured nor an ambient
\* transport constructor raises the configuration error and leaves the
\* manager as it was: the current handle is the same and in the same
\* state, no transport is constructed, and the table, the timers, the
\* calls, the listeners and shouldReconnect are unchanged.
C31_NoConstructorNoEffect ==
    [][\A impl \in BOOLEAN, ambient \in BOOLEAN :
          (~impl /\ ~ambient /\ openIn(impl, ambient))
          => /\ thrown' # ""
             /\ ws' = ws /\ socks' = socks
             /\ pending' = pending /\ reqTimers' = reqTimers /\ calls' = calls
             /\ listeners' = listeners
             /\ shouldReconnect' = shouldReconnect /\ reconn' = reconn
             /\ wire' = wire /\ nextId' = nextId]_vars

\* open() has raised for want of a constructor; the only transport is
\* still the current handle and open, request 1 is pending with its timer
\* armed, the `close` handler is registered and shouldReconnect is true
C31_Witness ==
    /\ thrown # ""
    /\ socks = <<1>> /\ ws = 1
    /\ pending = {1} /\ reqTimers = {1}
    /\ DOMAIN listeners = {"close"}
    /\ shouldReconnect

\* C32: the callbacks of a transport that open() has replaced leave the
\* manager alone.  The close callback of a transport other than the
\* current handle fails no pending request (the table, the timers and the
\* calls stay), invokes no `close` handler and arms no reconnection timer;
\* a response frame that arrives on such a transport completes no request.
C32_SupersededTransportIgnored ==
    [][\A i \in 1..MaxSockets :
          /\ (ws # 0 /\ i # ws /\ onclose(i))
             => /\ pending' = pending /\ reqTimers' = reqTimers /\ calls' = calls
                /\ log' = <<>>
                /\ reconn' = reconn
          /\ \A raw \in CoreFrames :
                (ws # 0 /\ i # ws /\ IsResponse(raw) /\ onmessage(i, raw))
                => pending' = pending /\ calls' = calls]_vars

\* C33: every id in the pending table, and every id with an armed timeout
\* timer, is the id of a request() call that still awaits its outcome; so
\* a call that has failed because line 193 raised has left neither.
C33_PendingBelongsToAwaitingCall ==
    \A id \in pending \cup reqTimers :
        \E c \in CallIds : calls[c].id = id /\ Awaiting(c)

\* C34: the message callback invokes no handler registered under `open`,
\* `close` or `error`, whatever the frame: those handlers are invoked by
\* the opened, closed and errored callbacks of the transport only.
C34_LifecycleFromTransportOnly ==
    [][\A raw \in LifecycleFrames :
          onmessage(1, raw)
          => \A k \in 1..Len(log') : log'[k].ev \notin LifecycleNames]_vars

\* C35: in every reachable state the ids with an armed timeout timer are
\* the ids of the pending table, and so every timeout callback that runs
\* finds the entry of its id in the table.
C35_TimersAndTableInStep ==
    /\ [](reqTimers = pending)
    /\ [][\A id \in Ids : requestTimeout(id) => id \in pending]_vars

\* request 1 was removed by its response and request 2 is pending with its
\* timer armed
C35_Witness ==
    /\ removals[1] = 1 /\ calls[1].promise = "resolved"
    /\ pending = {2} /\ reqTimers = {2}

\* C36: at most one reconnection timer is armed at any time, and the
\* callback of a reconnection timer never runs open() while the current
\* handle is open, so it never closes an open transport; open() calls of
\* the holder during the delay are among the steps.
C36_OneTimerNeverClosesOpen ==
    /\ [](reconn <= 1)
    /\ [][reconnectTimer(FALSE) => ~IsOpen]_vars

\* C37: an emission whose handlers call on() and off() for the event being
\* emitted ends, and has invoked no handler more than once.
C37_EmissionEndsOncePerHandler ==
    [][\A i \in 1..MaxSockets :
          onopenLive(i)
          => /\ ~hung'
             /\ \A h \in LiveHandlers : Count(h, InvokedFor(log', "open", NoFrame)) <= 1]_vars

\* C38: a response frame with a numeric id removes from the table and from
\* the armed timers the entry of that id and nothing else, and changes no
\* call made with another id; when its id is not in the table, the table,
\* the timers and the calls are all as before.
C38_ResponseTouchesOwnEntryOnly ==
    [][\A raw \in CoreFrames :
          (IsResponse(raw) /\ \E i \in 1..Len(socks) : onmessage(i, raw))
          => /\ pending' = pending \ {raw.id}
             /\ reqTimers' = reqTimers \ {raw.id}
             /\ \A c \in CallIds : calls[c].id # raw.id => calls'[c] = calls[c]
             /\ raw.id \notin pending
                => pending' = pending /\ reqTimers' = reqTimers /\ calls' = calls]_vars

\* two requests were pending; the response to the first has completed it
\* and the second still awaits its outcome, in the table with its timer
C38_Witness ==
    /\ Len(calls) = 2
    /\ calls[1].result.st = "ok" /\ calls[1].settles = 1
    /\ Awaiting(2)
    /\ pending = {calls[2].id} /\ reqTimers = {calls[2].id}

====
